---- MODULE Spec2Model ----
(***************************************************************************)
(* A model of smooth-scroll.py: the framing of a command for a Kakoune     *)
(* session (KakSender.send_cmd), one scroll tick (scroll_once), the        *)
(* inertial planner (inertial_scroll) and the dispatcher (main).           *)
(*                                                                         *)
(* Strings are sequences of Unicode code points, byte strings sequences of *)
(* numbers 0..255.  Python floats are modelled as exact rationals <<n, d>> *)
(* with d > 0 in lowest terms; the inputs are drawn from values a float    *)
(* holds exactly (quarters, half milliseconds).  Time is in seconds.       *)
(***************************************************************************)
EXTENDS Integers, Sequences, FiniteSets, TLC

(***************************************************************************)
(* Bounds of the model.                                                    *)
(***************************************************************************)
MaxLines == 5       \* kak_buf_line_count ranges over 1..MaxLines
MaxHeight == 6      \* kak_window_height ranges over 2..MaxHeight
MaxCount == 1       \* kak_count ranges over 0..MaxCount
MaxAmt == 4         \* amount ranges over -MaxAmt/4 .. MaxAmt/4 in quarters
MaxDur == 2         \* the duration argument ranges over 0..MaxDur half ms
MaxSpeed == 2       \* speed ranges over 0..MaxSpeed
MaxCmdLen == 3      \* commands of the framing specification have <= MaxCmdLen characters

(***************************************************************************)
(* Exact rational arithmetic, standing for Python's float arithmetic.      *)
(***************************************************************************)
Abs(n) == IF n < 0 THEN -n ELSE n

Max(a, b) == IF a > b THEN a ELSE b

Min(a, b) == IF a < b THEN a ELSE b

RECURSIVE GCD(_, _)
GCD(a, b) == IF b = 0 THEN a ELSE GCD(b, a % b)

Rat(n, d) ==
    LET s == IF d < 0 THEN -1 ELSE 1
        g == GCD(Abs(n), Abs(d))
    IN  <<(s * n) \div g, (s * d) \div g>>

LCM(a, b) == (a \div GCD(a, b)) * b

RZero == <<0, 1>>

RInt(n) == <<n, 1>>

RAdd(a, b) ==
    LET l == LCM(a[2], b[2])
    IN  Rat(a[1] * (l \div a[2]) + b[1] * (l \div b[2]), l)

RNeg(a) == <<-a[1], a[2]>>

RSub(a, b) == RAdd(a, RNeg(b))

RMul(a, b) ==
    LET x == Rat(a[1], b[2])
        y == Rat(b[1], a[2])
    IN  <<x[1] * y[1], x[2] * y[2]>>

\* defined only for b # 0: the callers model Python's ZeroDivisionError
RDiv(a, b) == RMul(a, Rat(b[2], b[1]))

RLess(a, b) ==
    LET l == LCM(a[2], b[2])
    IN  a[1] * (l \div a[2]) < b[1] * (l \div b[2])

RAbs(a) == <<Abs(a[1]), a[2]>>

\* int(x) of a float x: truncation towards zero
Trunc(a) == IF a[1] >= 0 THEN a[1] \div a[2] ELSE -((-a[1]) \div a[2])

\* x * b for a bool b, as in `duration * (i < times - 1)`
RBool(a, b) == IF b THEN a ELSE RZero

(***************************************************************************)
(* KakSender: the framing of one command (send_cmd, _get_length_bytes).    *)
(***************************************************************************)
\* str.encode('utf-8') of one code point
Utf8Char(cp) ==
    IF cp < 128 THEN <<cp>>
    ELSE IF cp < 2048 THEN <<192 + (cp \div 64), 128 + (cp % 64)>>
    ELSE IF cp < 65536
         THEN <<224 + (cp \div 4096), 128 + ((cp \div 64) % 64), 128 + (cp % 64)>>
    ELSE <<240 + (cp \div 262144), 128 + ((cp \div 4096) % 64),
           128 + ((cp \div 64) % 64), 128 + (cp % 64)>>

\* cmd.encode('utf-8')
RECURSIVE Utf8(_)
Utf8(str) == IF str = <<>> THEN <<>> ELSE Utf8Char(Head(str)) \o Utf8(Tail(str))

\* int.to_bytes(4, byteorder=sys.byteorder); the lengths modelled are < 2^32
LittleEndian4(n) ==
    <<n % 256, (n \div 256) % 256, (n \div 65536) % 256, (n \div 16777216) % 256>>

Reverse(s) == [k \in 1..Len(s) |-> s[Len(s) + 1 - k]]

get_length_bytes(str_length, order) ==
    IF order = "little" THEN LittleEndian4(str_length)
    ELSE Reverse(LittleEndian4(str_length))

\* b_content = self._get_length_bytes(len(b_cmd)) + b_cmd
b_content(str, order) == get_length_bytes(Len(Utf8(str)), order) \o Utf8(str)

\* a variant of b_header that counts the length field but not the magic byte
b_header_off(content, order) == <<2>> \o get_length_bytes(Len(content) + 4, order)

\* b_header = b'\x02' + self._get_length_bytes(len(b_content) + 5)
b_header(content, order) == <<2>> \o get_length_bytes(Len(content) + 5, order)

\* b_message = b_header + b_content
Message(str, order) ==
    LET c == b_content(str, order) IN b_header(c, order) \o c

(***************************************************************************)
(* The receiving side of the wire layout of send_cmd's docstring: what a   *)
(* session reads out of a message.  Used to state the round trip.          *)
(***************************************************************************)
FromBytes4(b, order) ==
    LET l == IF order = "little" THEN b ELSE Reverse(b)
    IN  l[1] + (256 * l[2]) + (65536 * l[3]) + (16777216 * l[4])

\* the number of bytes of the UTF-8 sequence a lead byte starts (0: no lead byte)
Utf8Width(b) ==
    IF b < 128 THEN 1
    ELSE IF b >= 192 /\ b < 224 THEN 2
    ELSE IF b >= 224 /\ b < 240 THEN 3
    ELSE IF b >= 240 /\ b < 248 THEN 4
    ELSE 0

RECURSIVE Utf8Decode(_)
Utf8Decode(b) ==
    IF b = <<>> THEN <<>>
    ELSE LET w == Utf8Width(b[1])
         IN  IF w = 0 \/ w > Len(b) THEN <<-1>>
             ELSE LET cp == IF w = 1 THEN b[1]
                            ELSE IF w = 2 THEN ((b[1] - 192) * 64) + (b[2] - 128)
                            ELSE IF w = 3
                                 THEN ((b[1] - 224) * 4096) + ((b[2] - 128) * 64)
                                      + (b[3] - 128)
                            ELSE ((b[1] - 240) * 262144) + ((b[2] - 128) * 4096)
                                 + ((b[3] - 128) * 64) + (b[4] - 128)
                  IN  <<cp>> \o Utf8Decode(SubSeq(b, w + 1, Len(b)))

WireMagic(msg) == msg[1]

WireTotalLength(msg, order) == FromBytes4(SubSeq(msg, 2, 5), order)

WireCommandLength(msg, order) == FromBytes4(SubSeq(msg, 6, 9), order)

WireCommand(msg, order) ==
    Utf8Decode(SubSeq(msg, 10, 9 + WireCommandLength(msg, order)))

(***************************************************************************)
(* The pure parts of send_keys, scroll_once, inertial_scroll and main.     *)
(***************************************************************************)
\* str(n) of a natural number, as the f-strings format it
RECURSIVE Str(_)
Str(n) == IF n < 10 THEN <<48 + n>> ELSE Str(n \div 10) \o <<48 + (n % 10)>>

\* the characters 'j', 'k' and 'v'
Chr_j == <<106>>

Chr_k == <<107>>

Chr_v == <<118>>

\* "execute-keys -client "
ExecuteKeys ==
    <<101, 120, 101, 99, 117, 116, 101, 45, 107, 101, 121, 115, 32,
      45, 99, 108, 105, 101, 110, 116, 32>>

\* os.environ['kak_client']: "c0"
kak_client == <<99, 48>>

\* cmd = f"execute-keys -client {self.client} {keys}"
send_keys_cmd(client, keys) == ExecuteKeys \o client \o <<32>> \o keys

\* keys = f"{speed}j{speed}vj" if step > 0 else f"{speed}k{speed}vk"
scroll_keys(step) ==
    LET sp == Abs(step)
    IN  IF step > 0 THEN Str(sp) \o Chr_j \o Str(sp) \o Chr_v \o Chr_j
        ELSE Str(sp) \o Chr_k \o Str(sp) \o Chr_v \o Chr_k

\* a variant of maxscroll_of that forgets the upward case
maxscroll_down(amt, cursor_line, line_count) == line_count - cursor_line

\* maxscroll = line_count - cursor_line if amount > 0 else cursor_line - 1
maxscroll_of(amt, cursor_line, line_count) ==
    IF RLess(RZero, amt) THEN line_count - cursor_line ELSE cursor_line - 1

\* count = max(1, int(os.environ['kak_count']))
count_of(kak_count) == Max(1, kak_count)

\* duration = float(sys.argv[2]) / 1000
duration_of(arg) == RDiv(arg, RInt(1000))

\* a variant of n_lines_of that does not clip to maxscroll
n_lines_unclipped(count, amt, window_height, maxscroll) ==
    Trunc(RMul(RMul(RInt(count), RAbs(amt)), RInt(window_height - 2)))

\* n_lines = min(int(count * abs(amount) * (window_height - 2)), maxscroll)
n_lines_of(count, amt, window_height, maxscroll) ==
    Min(Trunc(RMul(RMul(RInt(count), RAbs(amt)), RInt(window_height - 2))), maxscroll)

\* sign = 1 if amount > 0 else -1
sign_of(amt) == IF RLess(RZero, amt) THEN 1 ELSE -1

\* a variant of fixed_speed that forgets the duration
fixed_speed_only(sp, dur) == sp > 0

\* if speed > 0 or duration < 1e-3
fixed_speed(sp, dur) == sp > 0 \/ RLess(dur, <<1, 1000>>)

\* a variant of times_of that forgets the speed: a tick per line
times_per_line(n_lines, sp) == n_lines

\* a variant of times_of that rounds up: a partial extra tick
times_ceil(n_lines, sp) == (n_lines + Max(sp, 1) - 1) \div Max(sp, 1)

\* times = n_lines // max(speed, 1)
times_of(n_lines, sp) == n_lines \div Max(sp, 1)

\* the step of a fixed-speed tick: sign * speed
fixed_step(sign, sp) == sign * sp

\* a variant of fixed_hold that paces the last tick too
fixed_hold_every(dur, k, times) == dur

\* the duration of a fixed-speed tick: duration * (i < times - 1)
fixed_hold(dur, k, times) == RBool(dur, k < times - 1)

\* a variant of harmonic that sums from x = 1
RECURSIVE harmonic_from_one(_)
harmonic_from_one(n) ==
    IF n < 1 THEN RZero ELSE RAdd(harmonic_from_one(n - 1), <<1, n>>)

\* sum(1. / x for x in range(2, n_lines + 1))
RECURSIVE harmonic(_)
harmonic(n) == IF n < 2 THEN RZero ELSE RAdd(harmonic(n - 1), <<1, n>>)

\* the divisor of the initial velocity: (n_lines - 1) * duration
velocity_divisor(n, dur) == RMul(RInt(n - 1), dur)

\* velocity = n_lines * sum(...) / ((n_lines - 1) * duration)
initial_velocity(n, dur) ==
    RDiv(RMul(RInt(n), harmonic(n)), velocity_divisor(n, dur))

\* a variant of d_velocity_of with the sign turned: the velocity grows
d_velocity_up(v, n) == RDiv(RNeg(v), RInt(n))

\* a variant of d_velocity_of that reaches zero at the last step
d_velocity_to_zero(v, n) == RDiv(v, RInt(n - 1))

\* d_velocity = velocity / n_lines
d_velocity_of(v, n) == RDiv(v, RInt(n))

\* a variant of inertial_hold that paces the last tick too
inertial_hold_every(v, k, n) == RDiv(RInt(1), v)

\* the duration of an inertial tick: 1 / velocity * (i < n_lines - 1)
inertial_hold(v, k, n) == RBool(RDiv(RInt(1), v), k < n - 1)

\* a variant of sleep_time that never sleeps
sleep_never(elapsed, dur) == RZero

\* time.sleep(duration - elapsed) if elapsed < duration
sleep_time(elapsed, dur) == IF RLess(elapsed, dur) THEN RSub(dur, elapsed) ELSE RZero

\* a variant of after_send_keys that gives up on a short write
after_send_keys_checked(sent_all) == IF sent_all THEN "sleep" ELSE "error"

\* where scroll_once goes on after sender.send_keys(keys), whose result it drops
after_send_keys(sent_all) == "sleep"

\* a variant of on_connect_error that tries the connection again
on_connect_error_retry == "connect"

\* where the run goes when sock.connect raises: no try statement catches it
on_connect_error == "error"

\* the sockets open after send_cmd returned and dropped its socket without
\* closing it: the socket is closed when the interpreter finalizes it
open_after_drop(n, fin) == IF fin = "refcount" THEN n - 1 ELSE n

(***************************************************************************)
(* The state of one run of the script.                                     *)
(***************************************************************************)
VARIABLES
    env,        \* os.environ: cursor_line, line_count, window_height, count
    argv,       \* sys.argv: amount, duration (milliseconds), speed
    byteorder,  \* sys.byteorder
    finalizer,  \* when the interpreter closes a socket nothing refers to any more:
                \* "refcount" (at once, as CPython does) or "deferred" (not in this run)
    pc,         \* the position of the run
    path,       \* the branch main took: "fixed" or "inertial" ("none" before)
    main,       \* the locals of main: duration, maxscroll, n_lines, sign, times
    inertial,   \* the locals of inertial_scroll: n_lines, step, velocity, d_velocity
    i,          \* the loop index of the running loop
    once,       \* the frame of scroll_once: step, duration, t_start
    now,        \* time.time()
    sock,       \* the socket of send_cmd: "none", "connected", or "dropped" at its return
    connects,   \* the number of connections opened so far
    open_socks, \* the number of sockets open now
    cmd,        \* the command of the last send_cmd
    b_message,  \* the message of the last send_cmd
    n_sent,     \* the number of ticks sent so far
    tick,       \* the last tick sent
    prev_start, \* t_start of the tick sent before the last one
    sum_lines,  \* the lines commanded so far
    sum_hold,   \* the durations asked of scroll_once so far
    short_seen, \* whether some send so far was a short write
    err         \* the exception that ended the run

vars ==
    <<env, argv, byteorder, finalizer, pc, path, main, inertial, i, once, now, sock,
      connects, open_socks, cmd, b_message, n_sent, tick, prev_start, sum_lines,
      sum_hold, short_seen, err>>

inputs == <<env, argv, byteorder, finalizer>>

history == <<n_sent, tick, prev_start, sum_lines, sum_hold, short_seen>>

\* the time one send_cmd may take: none, or three quarters of a millisecond
SendTimes == {RZero, <<3, 4000>>}

NoFrame == [step |-> 0, duration |-> RZero, t_start |-> RZero]

NoTick ==
    [i |-> -1, step |-> 0, keys |-> <<>>, duration |-> RZero, t_start |-> RZero,
     t_end |-> RZero, sent_all |-> TRUE, slept |-> RZero, velocity |-> RZero]

NoMain == [duration |-> RZero, maxscroll |-> 0, n_lines |-> 0, sign |-> 0, times |-> 0]

NoInertial == [n_lines |-> 0, step |-> 0, velocity |-> RZero, d_velocity |-> RZero]

Environments ==
    {[cursor_line |-> c, line_count |-> l, window_height |-> h, count |-> k] :
        c \in 1..MaxLines, l \in 1..MaxLines, h \in 2..MaxHeight, k \in 0..MaxCount}

Arguments ==
    {[amount |-> Rat(a, 4), duration |-> Rat(d, 2), speed |-> sp] :
        a \in (-MaxAmt)..MaxAmt, d \in 0..MaxDur, sp \in 0..MaxSpeed}

Init ==
    /\ env \in {e \in Environments : e.cursor_line <= e.line_count}
    /\ argv \in Arguments
    /\ byteorder = "little"
    /\ finalizer = "refcount"
    /\ pc = "main"
    /\ path = "none"
    /\ main = NoMain
    /\ inertial = NoInertial
    /\ i = 0
    /\ once = NoFrame
    /\ now = RZero
    /\ sock = "none"
    /\ connects = 0
    /\ open_socks = 0
    /\ cmd = <<>>
    /\ b_message = <<>>
    /\ n_sent = 0
    /\ tick = NoTick
    /\ prev_start = RZero
    /\ sum_lines = 0
    /\ sum_hold = RZero
    /\ short_seen = FALSE
    /\ err = "none"

(***************************************************************************)
(* main                                                                    *)
(***************************************************************************)
\* main up to the choice of the path
MainLocals ==
    LET dur == duration_of(argv.duration)
        ms == maxscroll_of(argv.amount, env.cursor_line, env.line_count)
        n == n_lines_of(count_of(env.count), argv.amount, env.window_height, ms)
    IN  [duration |-> dur, maxscroll |-> ms, n_lines |-> n,
         sign |-> sign_of(argv.amount), times |-> 0]

\* if maxscroll == 0: return
MainReturn ==
    /\ pc = "main"
    /\ MainLocals.maxscroll = 0
    /\ main' = [NoMain EXCEPT !.duration = MainLocals.duration]
    /\ pc' = "done"
    /\ UNCHANGED <<inputs, path, inertial, i, once, now, sock, connects, open_socks, cmd, b_message,
                   history, err>>

\* the fixed speed branch, up to its loop
MainFixed ==
    /\ pc = "main"
    /\ MainLocals.maxscroll # 0
    /\ fixed_speed(argv.speed, MainLocals.duration)
    /\ main' = [MainLocals EXCEPT !.times = times_of(MainLocals.n_lines, argv.speed)]
    /\ i' = 0
    /\ path' = "fixed"
    /\ pc' = "fixed_loop"
    /\ UNCHANGED <<inputs, inertial, once, now, sock, connects, open_socks, cmd, b_message,
                   history, err>>

\* for i in range(times): scroll_once(sender, sign * speed, duration * (i < times - 1))
FixedTick ==
    /\ pc = "fixed_loop"
    /\ i < main.times
    /\ once' = [step |-> fixed_step(main.sign, argv.speed),
                duration |-> fixed_hold(main.duration, i, main.times),
                t_start |-> now]
    /\ pc' = "connect"
    /\ UNCHANGED <<inputs, path, main, inertial, i, now, sock, connects, open_socks, cmd, b_message,
                   history, err>>

FixedDone ==
    /\ pc = "fixed_loop"
    /\ i >= main.times
    /\ pc' = "done"
    /\ UNCHANGED <<inputs, path, main, inertial, i, once, now, sock, connects, open_socks, cmd,
                   b_message, history, err>>

(***************************************************************************)
(* inertial_scroll                                                         *)
(***************************************************************************)
InertialTarget == MainLocals.sign * MainLocals.n_lines

\* the divisions of lines 84-86 raise ZeroDivisionError on a zero divisor
InertialDivides ==
    /\ velocity_divisor(Abs(InertialTarget), MainLocals.duration)[1] # 0
    /\ Abs(InertialTarget) # 0

\* the inertial branch: inertial_scroll up to its loop
MainInertial ==
    /\ pc = "main"
    /\ MainLocals.maxscroll # 0
    /\ ~fixed_speed(argv.speed, MainLocals.duration)
    /\ InertialDivides
    /\ main' = MainLocals
    /\ LET n == Abs(InertialTarget)
           v == initial_velocity(n, MainLocals.duration)
       IN  inertial' = [n_lines |-> n,
                        step |-> IF InertialTarget > 0 THEN 1 ELSE -1,
                        velocity |-> v,
                        d_velocity |-> d_velocity_of(v, n)]
    /\ i' = 0
    /\ path' = "inertial"
    /\ pc' = "inertial_loop"
    /\ UNCHANGED <<inputs, once, now, sock, connects, open_socks, cmd, b_message, history, err>>

\* the inertial branch when a division of lines 84-86 raises
InertialRaise ==
    /\ pc = "main"
    /\ MainLocals.maxscroll # 0
    /\ ~fixed_speed(argv.speed, MainLocals.duration)
    /\ ~InertialDivides
    /\ main' = MainLocals
    /\ inertial' = [NoInertial EXCEPT !.n_lines = Abs(InertialTarget),
                                      !.step = IF InertialTarget > 0 THEN 1 ELSE -1]
    /\ err' = "ZeroDivisionError"
    /\ path' = "inertial"
    /\ pc' = "error"
    /\ UNCHANGED <<inputs, i, once, now, sock, connects, open_socks, cmd, b_message, history>>

\* for i in range(n_lines): scroll_once(sender, step, 1 / velocity * (i < n_lines - 1))
InertialTick ==
    /\ pc = "inertial_loop"
    /\ i < inertial.n_lines
    /\ IF inertial.velocity[1] = 0
       THEN /\ err' = "ZeroDivisionError"
            /\ pc' = "error"
            /\ UNCHANGED once
       ELSE /\ once' = [step |-> inertial.step,
                        duration |-> inertial_hold(inertial.velocity, i, inertial.n_lines),
                        t_start |-> now]
            /\ pc' = "connect"
            /\ UNCHANGED err
    /\ UNCHANGED <<inputs, path, main, inertial, i, now, sock, connects, open_socks, cmd, b_message,
                   history>>

InertialDone ==
    /\ pc = "inertial_loop"
    /\ i >= inertial.n_lines
    /\ pc' = "done"
    /\ UNCHANGED <<inputs, path, main, inertial, i, once, now, sock, connects, open_socks, cmd,
                   b_message, history, err>>

(***************************************************************************)
(* scroll_once, through send_keys and send_cmd                             *)
(***************************************************************************)
\* sock = socket.socket(socket.AF_UNIX); sock.connect(self.socket_path)
Connect ==
    /\ pc = "connect"
    /\ sock' = "connected"
    /\ connects' = connects + 1
    /\ open_socks' = open_socks + 1
    /\ pc' = "send"
    /\ UNCHANGED <<inputs, path, main, inertial, i, once, now, cmd, b_message, history, err>>

\* sock.connect raises: nothing catches it
ConnectFail ==
    /\ pc = "connect"
    /\ sock' = "none"
    /\ err' = "ConnectionError"
    /\ pc' = on_connect_error
    /\ UNCHANGED <<inputs, path, main, inertial, i, once, now, connects, open_socks, cmd, b_message,
                   history>>

\* sock.send(b_message) == len(b_message), and the return of send_cmd, which
\* drops the only reference to the socket
Send ==
    /\ pc = "send"
    /\ \E took \in SendTimes, all \in BOOLEAN :
        LET keys == scroll_keys(once.step)
            c == send_keys_cmd(kak_client, keys)
        IN  /\ cmd' = c
            /\ b_message' = Message(c, byteorder)
            /\ now' = RAdd(now, took)
            /\ short_seen' = (short_seen \/ ~all)
            /\ pc' = after_send_keys(all)
            /\ tick' = [i |-> i, step |-> once.step, keys |-> keys,
                        duration |-> once.duration, t_start |-> once.t_start,
                        t_end |-> RAdd(now, took), sent_all |-> all, slept |-> RZero,
                        velocity |-> inertial.velocity]
    /\ prev_start' = tick.t_start
    /\ n_sent' = n_sent + 1
    /\ sum_lines' = sum_lines + Abs(once.step)
    /\ sum_hold' = RAdd(sum_hold, once.duration)
    /\ sock' = "dropped"
    /\ open_socks' = open_after_drop(open_socks, finalizer)
    /\ UNCHANGED <<inputs, path, main, inertial, i, once, connects, err>>

\* the end of scroll_once: the sleep, and the step of the calling loop
\* (velocity -= d_velocity in inertial_scroll)
Sleep ==
    /\ pc = "sleep"
    /\ LET slept == sleep_time(RSub(now, once.t_start), once.duration)
       IN  /\ now' = RAdd(now, slept)
           /\ tick' = [tick EXCEPT !.slept = slept]
    /\ i' = i + 1
    /\ IF path = "inertial"
       THEN /\ inertial' = [inertial EXCEPT
                              !.velocity = RSub(inertial.velocity, inertial.d_velocity)]
            /\ pc' = "inertial_loop"
       ELSE /\ pc' = "fixed_loop"
            /\ UNCHANGED inertial
    /\ UNCHANGED <<inputs, path, main, once, sock, connects, open_socks, cmd, b_message,
                   n_sent, prev_start, sum_lines, sum_hold, short_seen, err>>

Next ==
    \/ MainReturn
    \/ MainFixed
    \/ FixedTick
    \/ FixedDone
    \/ MainInertial
    \/ InertialRaise
    \/ InertialTick
    \/ InertialDone
    \/ Connect
    \/ ConnectFail
    \/ Send
    \/ Sleep

Spec == Init /\ [][Next]_vars

\* the run on an interpreter that does not finalize a dropped socket at once
InitDeferred ==
    /\ env \in {e \in Environments : e.cursor_line <= e.line_count}
    /\ argv \in Arguments
    /\ byteorder = "little"
    /\ finalizer = "deferred"
    /\ pc = "main"
    /\ path = "none"
    /\ main = NoMain
    /\ inertial = NoInertial
    /\ i = 0
    /\ once = NoFrame
    /\ now = RZero
    /\ sock = "none"
    /\ connects = 0
    /\ open_socks = 0
    /\ cmd = <<>>
    /\ b_message = <<>>
    /\ n_sent = 0
    /\ tick = NoTick
    /\ prev_start = RZero
    /\ sum_lines = 0
    /\ sum_hold = RZero
    /\ short_seen = FALSE
    /\ err = "none"

SpecDeferred == InitDeferred /\ [][Next]_vars

(***************************************************************************)
(* send_cmd alone, on every command of a small alphabet of characters of   *)
(* one to four UTF-8 bytes, in both byte orders.                           *)
(***************************************************************************)
Alphabet == {65, 233, 8364, 128512}

Commands == UNION {[1..n -> Alphabet] : n \in 0..MaxCmdLen}

InitWire ==
    /\ env = [cursor_line |-> 1, line_count |-> 1, window_height |-> 2, count |-> 0]
    /\ argv = [amount |-> RZero, duration |-> RZero, speed |-> 0]
    /\ byteorder \in {"little", "big"}
    /\ finalizer = "refcount"
    /\ pc = "send_cmd"
    /\ path = "none"
    /\ main = NoMain
    /\ inertial = NoInertial
    /\ i = 0
    /\ once = NoFrame
    /\ now = RZero
    /\ sock = "none"
    /\ connects = 0
    /\ open_socks = 0
    /\ cmd \in Commands
    /\ b_message = <<>>
    /\ n_sent = 0
    /\ tick = NoTick
    /\ prev_start = RZero
    /\ sum_lines = 0
    /\ sum_hold = RZero
    /\ short_seen = FALSE
    /\ err = "none"

\* send_cmd(cmd) with a connection that succeeds
SendCmd ==
    /\ pc = "send_cmd"
    /\ b_message' = Message(cmd, byteorder)
    /\ connects' = connects + 1
    /\ sock' = "dropped"
    /\ open_socks' = open_after_drop(open_socks + 1, finalizer)
    /\ pc' = "sent"
    /\ UNCHANGED <<inputs, path, main, inertial, i, once, now, cmd, history, err>>

NextWire == SendCmd

SpecWire == InitWire /\ [][NextWire]_vars

(***************************************************************************)
(* Properties.  What they read of the inputs they compute from env and     *)
(* argv in integers, apart from the operators the run uses.                *)
(***************************************************************************)
AmountPositive == argv.amount[1] > 0

\* the distance to the end of the buffer in the direction of amount
Room == IF AmountPositive THEN env.line_count - env.cursor_line ELSE env.cursor_line - 1

\* tick_duration in seconds: the duration argument is in milliseconds
TickDuration == Rat(argv.duration[1], argv.duration[2] * 1000)

\* tick_duration < 1 millisecond
SubMillisecond == argv.duration[1] < argv.duration[2]

\* C1: when maxscroll == 0 (amount > 0 with the cursor on the last line, or
\* amount <= 0 with the cursor on line 1) the run opens no connection and
\* sends no command, whatever the other inputs are.
C1_NothingToScroll ==
    ((AmountPositive /\ env.cursor_line = env.line_count)
        \/ (~AmountPositive /\ env.cursor_line = 1))
    => /\ connects = 0
       /\ sock = "none"
       /\ n_sent = 0
       /\ b_message = <<>>
       /\ pc \in {"main", "done"}

\* a run that returned with nothing to scroll, though a fixed scroll was asked
C1_Witness ==
    /\ pc = "done"
    /\ Room = 0
    /\ env.line_count > 1
    /\ argv.speed > 0
    /\ env.window_height > 2
    /\ argv.amount[1] # 0

\* the number of UTF-8 bytes of a string, by the ranges of its code points
RECURSIVE Utf8Len(_)
Utf8Len(str) ==
    IF str = <<>> THEN 0
    ELSE (IF Head(str) < 128 THEN 1
          ELSE IF Head(str) < 2048 THEN 2
          ELSE IF Head(str) < 65536 THEN 3 ELSE 4) + Utf8Len(Tail(str))

\* C2: the message of send_cmd is the magic byte 2, a 4-byte total_length, a
\* 4-byte command_length and the UTF-8 bytes of the command; total_length is
\* content_length + 5, the length of the whole message; command_length is the
\* number of UTF-8 bytes of the command; decoding the message gives the command.
C2_Framing ==
    pc = "sent" =>
        /\ Len(b_message) >= 9
        /\ WireMagic(b_message) = 2
        /\ WireTotalLength(b_message, byteorder) = Len(SubSeq(b_message, 6, Len(b_message))) + 5
        /\ WireTotalLength(b_message, byteorder) = Len(b_message)
        /\ WireCommandLength(b_message, byteorder) = Utf8Len(cmd)
        /\ Len(b_message) = 9 + Utf8Len(cmd)
        /\ WireCommand(b_message, byteorder) = cmd

\* a sent command of three characters of different UTF-8 widths
C2_Witness ==
    /\ pc = "sent"
    /\ Len(cmd) = 3
    /\ Utf8Len(cmd) > 6
    /\ cmd[1] # cmd[2]
    /\ byteorder = "big"

\* C3: the fixed-speed path sends exactly n_lines // max(speed, 1) ticks: the
\* remainder is dropped, and there is never a partial extra tick.
C3_FixedTicks ==
    path = "fixed" =>
        /\ n_sent <= main.n_lines \div (IF argv.speed < 1 THEN 1 ELSE argv.speed)
        /\ pc = "done" =>
             n_sent = main.n_lines \div (IF argv.speed < 1 THEN 1 ELSE argv.speed)

\* a finished fixed-speed run that dropped a remainder
C3_Witness ==
    /\ path = "fixed"
    /\ pc = "done"
    /\ argv.speed = 2
    /\ main.n_lines = 3
    /\ n_sent = 1

\* the keys of a tick of n lines downwards, and upwards
KeysDown(n) == Str(n) \o <<106>> \o Str(n) \o <<118, 106>>

KeysUp(n) == Str(n) \o <<107>> \o Str(n) \o <<118, 107>>

\* C4: every tick the fixed-speed path sends has the magnitude max(speed, 1),
\* which is at least one line, also for speed = 0 with tick_duration < 1 ms.
C4_FixedMagnitude ==
    (path = "fixed" /\ n_sent > 0) =>
        LET mag == IF argv.speed < 1 THEN 1 ELSE argv.speed
        IN  /\ Abs(tick.step) = mag
            /\ tick.keys \in {KeysDown(mag), KeysUp(mag)}

\* C5: every key sequence of a run encodes the direction of amount: 'j' keys
\* (down) for amount > 0, 'k' keys (up) otherwise, in both paths.
C5_Direction ==
    n_sent > 0 =>
        IF AmountPositive THEN tick.keys = KeysDown(Abs(tick.step))
        ELSE tick.keys = KeysUp(Abs(tick.step))

\* count * abs(amount) * (window_height - 2) as a fraction num / den
ProductNum == (IF env.count < 1 THEN 1 ELSE env.count) * Abs(argv.amount[1])
                  * (env.window_height - 2)

ProductDen == argv.amount[2]

\* round(x) of Python: to the nearest integer, a tie to the even one
RoundedProduct ==
    LET fl == ProductNum \div ProductDen
        r == ProductNum % ProductDen
    IN  IF 2 * r < ProductDen THEN fl
        ELSE IF 2 * r > ProductDen THEN fl + 1
        ELSE IF fl % 2 = 0 THEN fl ELSE fl + 1

\* int(x) for x >= 0
TruncatedProduct == ProductNum \div ProductDen

\* C6 as claimed: n_lines = min(round(repeat_count * abs(amount) *
\* (window_height - 2)), maxscroll), the product rounded to the nearest integer.
C6_RoundedLines ==
    path # "none" =>
        main.n_lines = (IF RoundedProduct < Room THEN RoundedProduct ELSE Room)

\* C6 as amended: n_lines = min(int(repeat_count * abs(amount) *
\* (window_height - 2)), maxscroll), the product truncated towards zero, for
\* every input with maxscroll # 0.
C6_TruncatedLines ==
    path # "none" =>
        /\ main.maxscroll = Room
        /\ main.n_lines = (IF TruncatedProduct < Room THEN TruncatedProduct ELSE Room)

\* a run whose product has a fraction above one half and is not clipped
C6_Witness ==
    /\ path # "none"
    /\ 2 * (ProductNum % ProductDen) > ProductDen
    /\ TruncatedProduct < Room
    /\ main.n_lines = TruncatedProduct
    /\ main.n_lines < RoundedProduct

\* C7: the inertial path with S = abs(target_lines) = 1 raises no division
\* error and sends exactly one single-line step with zero hold.
C7_SingleStep ==
    (path = "inertial" /\ inertial.n_lines = 1) =>
        /\ err # "ZeroDivisionError"
        /\ pc = "done" =>
             (n_sent = 1 /\ Abs(tick.step) = 1 /\ tick.duration = RZero)

\* the number of ticks the fixed-speed path plans
PlannedTicks == main.n_lines \div (IF argv.speed < 1 THEN 1 ELSE argv.speed)

\* a <= b on rationals, by cross multiplication
AtMost(a, b) == a[1] * b[2] <= b[1] * a[2]

\* C8: in the fixed-speed path every tick but the last is padded to at least
\* tick_duration: the next send starts no sooner than tick_duration after this
\* tick's send started, the sleep is never negative, and there is none when the
\* send took tick_duration or longer; the last tick has hold 0, so that the run
\* ends with no trailing sleep.
C8_FixedPacing ==
    (path = "fixed" /\ n_sent > 0) =>
        /\ tick.i = n_sent - 1
        /\ tick.duration = (IF tick.i < PlannedTicks - 1 THEN TickDuration ELSE RZero)
        /\ AtMost(RZero, tick.slept)
        /\ AtMost(TickDuration, RSub(tick.t_end, tick.t_start)) => tick.slept = RZero
        /\ (tick.i < PlannedTicks - 1 /\ pc \in {"fixed_loop", "connect", "send"}) =>
               AtMost(RAdd(tick.t_start, TickDuration), now)
        /\ n_sent > 1 => AtMost(RAdd(prev_start, TickDuration), tick.t_start)
        /\ tick.i = PlannedTicks - 1 => (tick.slept = RZero /\ now = tick.t_end)
        /\ pc = "done" => (tick.i = PlannedTicks - 1 /\ now = tick.t_end)

\* a tick that is not the last one, padded by the residual of its send time
C8_Witness ==
    /\ path = "fixed"
    /\ pc = "connect"
    /\ n_sent = 1
    /\ PlannedTicks > 1
    /\ RLess(RZero, tick.slept)
    /\ RLess(tick.slept, TickDuration)
    /\ now = RAdd(tick.t_start, TickDuration)

\* S = abs(target_lines) of the inertial path
S == inertial.n_lines

\* v_1 of the inertial path, and the velocity of step k (0-indexed) when
\* v_1 / S is taken off after each step
V1 == initial_velocity(S, TickDuration)

VelocityAt(k) == RMul(V1, Rat(S - k, S))

\* C9: for S >= 2 the inertial path sends exactly S steps of one line each in
\* the direction of target_lines; step i (0-indexed) is held for 1 / v_current
\* when i < S - 1 and for 0 when i = S - 1, and v_current goes down by
\* dv = v_1 / S after each step.
C9_InertialSteps ==
    (path = "inertial" /\ S >= 2) =>
        /\ inertial.d_velocity = RMul(V1, <<1, S>>)
        /\ n_sent <= S
        /\ pc = "done" => n_sent = S
        /\ pc = "inertial_loop" => (i = n_sent /\ inertial.velocity = VelocityAt(i))
        /\ n_sent > 0 =>
            /\ tick.i = n_sent - 1
            /\ tick.step = (IF AmountPositive THEN 1 ELSE -1)
            /\ tick.keys = (IF AmountPositive THEN KeysDown(1) ELSE KeysUp(1))
            /\ tick.velocity = VelocityAt(tick.i)
            /\ tick.duration =
                 (IF tick.i < S - 1 THEN <<tick.velocity[2], tick.velocity[1]>> ELSE RZero)

\* a finished inertial run of three steps or more
C9_Witness ==
    /\ path = "inertial"
    /\ pc = "done"
    /\ S >= 3
    /\ n_sent = S
    /\ tick.duration = RZero

\* C10: for S >= 2 the first S - 1 hold durations of the inertial path add up
\* to (S - 1) * tick_duration, and the last step adds 0.
C10_InertialTotal ==
    (path = "inertial" /\ S >= 2 /\ n_sent >= S - 1) =>
        sum_hold = Rat((S - 1) * argv.duration[1], argv.duration[2] * 1000)

\* an inertial run of three steps or more with all its paced steps sent
C10_Witness ==
    /\ path = "inertial"
    /\ S >= 3
    /\ n_sent = S - 1
    /\ pc = "inertial_loop"
    /\ RLess(RZero, sum_hold)

\* a scroll_once call is running: `once` is the tick being sent, `tick` the one before
InScrollOnce == pc \in {"connect", "send"}

\* C11 as claimed: in the inertial path with S >= 3 each paced step is held for
\* a strictly shorter time than the paced step before it.
C11_HoldsDecrease ==
    (path = "inertial" /\ S >= 3 /\ InScrollOnce /\ n_sent > 0 /\ i < S - 1) =>
        RLess(once.duration, tick.duration)

\* C11 as amended: in the inertial path with S >= 3 each paced step is held for
\* a strictly longer time than the paced step before it: the velocity falls.
C11_HoldsIncrease ==
    (path = "inertial" /\ S >= 3 /\ InScrollOnce /\ n_sent > 0 /\ i < S - 1) =>
        /\ tick.i = i - 1
        /\ RLess(RZero, tick.duration)
        /\ RLess(tick.duration, once.duration)

\* the third paced step of an inertial run is about to be sent
C11_Witness ==
    /\ path = "inertial"
    /\ S >= 4
    /\ pc = "send"
    /\ i = 2
    /\ n_sent = 2
    /\ RLess(tick.duration, once.duration)

\* C12 as claimed: every invocation takes the fixed-speed path if and only if
\* speed > 0 or tick_duration < 1 millisecond, and the inertial path otherwise.
C12_AlwaysOnePath ==
    pc # "main" =>
        path = (IF argv.speed > 0 \/ SubMillisecond THEN "fixed" ELSE "inertial")

\* C12 as amended: an invocation with maxscroll # 0 takes the fixed-speed path
\* if and only if speed > 0 or tick_duration < 1 millisecond, and the inertial
\* path otherwise, exactly one of the two; with maxscroll = 0 it takes neither.
C12_Selection ==
    /\ (pc # "main" /\ Room # 0) =>
           path = (IF argv.speed > 0 \/ SubMillisecond THEN "fixed" ELSE "inertial")
    /\ pc = "fixed_loop" => path = "fixed"
    /\ pc = "inertial_loop" => path = "inertial"
    /\ path = "fixed" => inertial = NoInertial
    /\ path = "inertial" => main.times = 0
    /\ (pc = "main" \/ Room = 0) => path = "none"

\* a fixed-speed tick sent for speed = 0, because the duration is below 1 ms
C12_Witness ==
    /\ path = "fixed"
    /\ argv.speed = 0
    /\ SubMillisecond
    /\ argv.duration[1] > 0
    /\ n_sent > 0

\* C13: the ticks are sent in the order they are generated and do not overlap:
\* the send of a tick starts only after the send of the one before it and its
\* hold have both finished.
C13_InOrder ==
    /\ n_sent > 0 => tick.i = n_sent - 1
    /\ InScrollOnce => i = n_sent
    /\ (InScrollOnce /\ n_sent > 0) =>
        /\ AtMost(RAdd(tick.t_end, tick.slept), once.t_start)
        /\ AtMost(RAdd(tick.t_start, tick.duration), once.t_start)
        /\ AtMost(tick.t_start, tick.t_end)

\* a third tick is about to be sent after a tick that slept
C13_Witness ==
    /\ pc = "send"
    /\ n_sent = 2
    /\ RLess(RZero, tick.slept)
    /\ RLess(tick.t_start, tick.t_end)

\* the ticks a run plans: n_lines // max(speed, 1) in the fixed-speed path,
\* n_lines in the inertial path
Planned == IF path = "fixed" THEN PlannedTicks ELSE main.n_lines

\* C14: a short write does not abort the run and is not retried: the tick is
\* sent once, and every later tick of the plan is still sent, in order, with
\* the magnitude and the hold it has when no write is short.
C14_ShortWrite ==
    short_seen =>
        /\ pc = "error" => err = "ConnectionError"
        /\ err \in {"none", "ConnectionError"}
        /\ tick.i = n_sent - 1
        /\ connects = (IF pc = "send" THEN n_sent + 1 ELSE n_sent)
        /\ pc = "done" => n_sent = Planned
        /\ path = "fixed" =>
            /\ tick.step = main.sign * argv.speed
            /\ tick.duration = (IF tick.i < PlannedTicks - 1 THEN TickDuration ELSE RZero)
        /\ path = "inertial" =>
            /\ tick.step = main.sign
            /\ tick.duration =
                 (IF tick.i < S - 1 THEN RDiv(RInt(1), VelocityAt(tick.i)) ELSE RZero)

\* a run that finished all of its three or more ticks after a short write on
\* a tick that was not the last
C14_Witness ==
    /\ short_seen
    /\ tick.sent_all
    /\ pc = "done"
    /\ n_sent >= 3
    /\ n_sent = Planned

\* C15: when the connection for tick k cannot be made the error ends the run
\* at once: tick k is not sent and not tried again, no hold is slept for it,
\* and no step follows.
C15_ConnectAbort ==
    /\ [](err = "ConnectionError" =>
            /\ pc = "error"
            /\ n_sent = i
            /\ connects = i
            /\ now = once.t_start
            /\ sock = "none"
            /\ n_sent > 0 => tick.i = i - 1)
    /\ [][pc # "error"]_vars

\* the run ended on the connection of its third tick
C15_Witness ==
    /\ pc = "error"
    /\ err = "ConnectionError"
    /\ i = 2
    /\ n_sent = 2
    /\ RLess(RZero, once.duration)

\* C16: each send opens a connection and closes it: the connection of a tick
\* is closed before the connection of the next tick is opened, so that at most
\* one connection is open at any time and none is open when the run ends.
C16_OneConnection ==
    /\ open_socks <= 1
    /\ open_socks = (IF sock = "connected" THEN 1 ELSE 0)
    /\ pc = "connect" => open_socks = 0
    /\ pc \in {"done", "error"} => open_socks = 0
    /\ connects = (IF pc = "send" THEN n_sent + 1 ELSE n_sent)

\* C17: in the inertial path with S >= 2 the velocity is strictly positive at
\* every step 0..S-1 when 1 / velocity is computed, and at the last paced step
\* (step S - 2) it is v_1 * 2 / S: there is no division by zero.
C17_VelocityPositive ==
    (path = "inertial" /\ S >= 2) =>
        /\ err # "ZeroDivisionError"
        /\ (pc = "inertial_loop" /\ i < S) => inertial.velocity[1] > 0
        /\ (pc = "inertial_loop" /\ i = S - 2) =>
               inertial.velocity = RMul(V1, Rat(2, S))
        /\ n_sent > 0 =>
            /\ tick.velocity[1] > 0
            /\ tick.i = S - 2 => tick.velocity = RMul(V1, Rat(2, S))
            /\ tick.i = S - 2 => tick.duration = RDiv(RInt(S), RMul(RInt(2), V1))

\* the last paced step of an inertial run of four steps or more was sent
C17_Witness ==
    /\ path = "inertial"
    /\ S >= 4
    /\ n_sent = S - 1
    /\ tick.i = S - 2
    /\ pc = "sleep"

C19_NothingAsked ==
    (path # "none" /\ main.n_lines = 0) =>
        /\ n_sent = 0
        /\ connects = 0
        /\ err = "none"
        /\ pc # "error"

\* C20: a run whose connections all succeed ends after exactly
\* n_lines // max(speed, 1) ticks in the fixed-speed path and exactly n_lines
\* ticks in the inertial path, and never sends more ticks than that.
C20_EndsAsPlanned ==
    path # "none" =>
        /\ n_sent <= Planned
        /\ n_sent <= main.n_lines
        /\ (pc \in {"done", "error"} /\ err # "ConnectionError") => n_sent = Planned

====
